---- MODULE Spec2Model ----
(***************************************************************************)
(* Model of the staged story-generation pipeline of                        *)
(* 2_openai/community_contributions/Bedtime-Stories-Creator:               *)
(* StoryManager.run (an async generator) and the stage coroutines it       *)
(* awaits.  pc is the generator's position, named after the source line   *)
(* it is suspended at ("L46_await" = suspended in the await of line 46).   *)
(* The external agents (planner, researcher, writer, guardian) are the     *)
(* environment: every call may return any value of the small input sets    *)
(* below, or raise.  Further specifications add a second, interleaved run  *)
(* (SpecTwoRuns), the Gradio handler app.generate_story that iterates the  *)
(* run (SpecApp), hung calls (SpecTimeout) and a consumer that stops       *)
(* (SpecCancel); SpecShop is the ShoppingList of                           *)
(* 6_mcp/community_contributions/shopping_list_mcp.                        *)
(***************************************************************************)
EXTENDS FiniteSets, Integers, Sequences, TLC

\* StoryManager.MAX_REVISION_ATTEMPTS
MAX_REVISION_ATTEMPTS == 3

\* planner_agent.HOW_MANY_SEARCHES: the number of searches the planner is
\* instructed to produce; the plan (an LLM output) holds 0..that many items.
HOW_MANY_SEARCHES == 5

\* Bound: a rejecting guardian reports between 1 and MaxIssues issues.
MaxIssues == 1

VARIABLES
    pc,                \* position of the generator StoryManager.run
    events,            \* the strings yielded so far, in order
    calls,             \* capability invocations (Runner.run) so far, in order
    exc,               \* "none", or the stage whose exception left run()
    search_plan,       \* run(): len(search_plan.searches)
    research_results,  \* run(): list of payloads handed to writer / reviser
    story,             \* run(): the current BedtimeStory
    evaluation,        \* run(): the current StoryEvaluation
    attempts,          \* run(): the revision counter
    tasks,             \* perform_searches(): state of each asyncio task
    done,              \* as_completed(): finished tasks not yet awaited
    results,           \* perform_searches(): the list being built
    evaluations,       \* every StoryEvaluation returned so far, in order
    other,             \* the state of the run that is not executing now
    active,            \* which of the two runs is executing: 1 or 2
    items,             \* ShoppingList._items: key -> ShoppingItem
    budget,            \* ShoppingList._budget
    reply,             \* the dict returned by the last ShoppingList call
    app_pc,            \* position of app.generate_story
    request,           \* the form fields generate_story was called with
    ui,                \* the (status, story) pairs generate_story yielded
    notifications      \* calls of send_pushover_notification so far

\* the state of the executing run
runVars == <<pc, events, calls, exc, search_plan, research_results, story,
             evaluation, attempts, tasks, done, results, evaluations>>

\* the suspended run
peerVars == <<other, active>>

\* the global ShoppingList instance (shopping_list.get_shopping_list)
shopVars == <<items, budget, reply>>

\* the Gradio handler app.generate_story that iterates the run
appVars == <<app_pc, request, ui, notifications>>

\* everything a step of the executing run leaves alone
outside == <<peerVars, shopVars, appVars>>

vars == <<runVars, peerVars, shopVars, appVars>>

\* locals of run() other than pc / events / calls
runLocals == <<search_plan, research_results, story, evaluation, attempts>>
\* locals of perform_searches()
fanLocals == <<tasks, done, results>>

----------------------------------------------------------------------------
\* Values

\* a local that has not been assigned yet
NoStory == [ver |-> 0, fun_fact_included |-> FALSE]
NoEvaluation == [is_approved |-> FALSE, issues_found |-> <<>>]

\* issue lists the k-th evaluation can report when it rejects: 1..MaxIssues
\* issues, each identified by the evaluation it comes from
IssueLists(k) == {[i \in 1..n |-> <<k, i>>] : n \in 1..MaxIssues}

\* BedtimeStory values the writer can return as its ver-th output: the text is
\* identified by ver, and the optional fun fact is present or None.
BedtimeStory(ver) == {[ver |-> ver, fun_fact_included |-> f] : f \in BOOLEAN}

\* StoryEvaluation values the guardian can return from its k-th call: an
\* approval without issues or a rejection with issues (fix_instructions goes
\* wherever issues_found goes and is not modelled separately)
StoryEvaluation(k) ==
    {[is_approved |-> TRUE, issues_found |-> <<>>]}
    \cup {[is_approved |-> FALSE, issues_found |-> i] : i \in IssueLists(k)}

\* ShoppingList.__init__: self._budget = 100.0
InitialBudget == 100

\* generate_story has not been called
NoRequest == [child_name |-> "", interests |-> <<>>, submitted |-> FALSE]

\* ShoppingItem.price is None
NoPrice == -1

\* placeholders for "no item" / "no call yet" in reply
NoItem == [name |-> <<>>, quantity |-> 0, category |-> "", price |-> NoPrice]
NoReply ==
    [call |-> [op |-> "none", name |-> <<>>, quantity |-> 0],
     result |-> [success |-> FALSE, action |-> "", item |-> NoItem]]

Event(kind, arg) == [kind |-> kind, arg |-> arg]
Call(stage, arg) == [stage |-> stage, arg |-> arg]

Emit(kind, arg) == events' = Append(events, Event(kind, arg))
Invoke(stage, arg) == calls' = Append(calls, Call(stage, arg))

----------------------------------------------------------------------------
\* a run that has not been pulled yet
InitialRun ==
    [pc |-> "L42", events |-> <<>>, calls |-> <<>>, exc |-> "none",
     search_plan |-> 0, research_results |-> <<>>, story |-> NoStory,
     evaluation |-> NoEvaluation, attempts |-> 0, tasks |-> <<>>,
     done |-> <<>>, results |-> <<>>, evaluations |-> <<>>]

Init ==
    /\ pc = "L42"
    /\ events = <<>>
    /\ calls = <<>>
    /\ exc = "none"
    /\ search_plan = 0
    /\ research_results = <<>>
    /\ story = NoStory
    /\ evaluation = NoEvaluation
    /\ attempts = 0
    /\ tasks = <<>>
    /\ done = <<>>
    /\ results = <<>>
    /\ evaluations = <<>>
    /\ other = InitialRun
    /\ active = 1
    /\ items = [k \in {} |-> NoItem]
    /\ budget = InitialBudget
    /\ reply = NoReply
    /\ app_pc = "idle"
    /\ request = NoRequest
    /\ ui = <<>>
    /\ notifications = 0

\* a plain `yield <string>`, after which the generator resumes at label to
Yield(to, kind, arg) ==
    /\ pc' = to
    /\ Emit(kind, arg)
    /\ UNCHANGED <<calls, exc, runLocals, fanLocals, evaluations,
                   outside>>

\* an exception of stage leaves the awaiting coroutine and run()
Raise(stage) ==
    /\ pc' = "raised"
    /\ exc' = stage
    /\ UNCHANGED <<events, calls, runLocals, fanLocals, evaluations,
                   outside>>

----------------------------------------------------------------------------
\* Step 1: plan searches

YieldTraceLink ==
    /\ pc = "L42"
    /\ Yield("L45", "trace", 0)

YieldPlanning ==
    /\ pc = "L45"
    /\ Yield("L46", "planning", 0)

CallPlanner ==
    /\ pc = "L46"
    /\ pc' = "L46_await"
    /\ Invoke("plan", 0)
    /\ UNCHANGED <<events, exc, runLocals, fanLocals, evaluations,
                   outside>>

PlannerReturns ==
    /\ pc = "L46_await"
    /\ \E n \in 0..HOW_MANY_SEARCHES : search_plan' = n
    /\ pc' = "L47"
    /\ UNCHANGED <<events, calls, exc, research_results, story, evaluation,
                   attempts, fanLocals, evaluations,
                   outside>>

PlannerFails ==
    /\ pc = "L46_await"
    /\ Raise("plan")

YieldTheme ==
    /\ pc = "L47"
    /\ Yield("L50", "theme", 0)

----------------------------------------------------------------------------
\* Step 2: research (perform_searches / search)

YieldResearching ==
    /\ pc = "L50"
    /\ Yield("L51", "researching", 0)

\* Collected without the `is not None` test of line 104
CollectedKeepsNone(res, i, status) == Append(res, i)

\* the result list after the as_completed loop has awaited task i, which
\* ended in status ("ok": search returned a str, "failed": it returned None)
Collected(res, i, status) ==
    IF status = "ok" THEN Append(res, i) ELSE res

\* LaunchSearches that does not wait for the tasks it created: run() goes on
\* with an empty list while the searches are still in flight
LaunchSearchesDetached ==
    /\ pc = "L51"
    /\ pc' = "L52"
    /\ tasks' = [i \in 1..search_plan |-> "running"]
    /\ calls' = calls \o [i \in 1..search_plan |-> Call("search", i)]
    /\ done' = <<>>
    /\ results' = <<>>
    /\ UNCHANGED <<events, exc, runLocals, evaluations,
                   outside>>

\* lines 98-101: every task is created; each runs up to its Runner.run call
\* (in plan order) as soon as perform_searches suspends in the first await
LaunchSearches ==
    /\ pc = "L51"
    /\ pc' = "L102"
    /\ tasks' = [i \in 1..search_plan |-> "running"]
    /\ calls' = calls \o [i \in 1..search_plan |-> Call("search", i)]
    /\ done' = <<>>
    /\ results' = <<>>
    /\ UNCHANGED <<events, exc, runLocals, evaluations,
                   outside>>

\* lines 113-114: the research agent answers; the payload of task i is i
SearchReturns ==
    /\ pc = "L102"
    /\ \E i \in DOMAIN tasks :
        /\ tasks[i] = "running"
        /\ tasks' = [tasks EXCEPT ![i] = "ok"]
        /\ done' = Append(done, i)
    /\ UNCHANGED <<pc, events, calls, exc, runLocals, results, evaluations,
                   outside>>


\* SearchFails with one retry: the first failure of a subtask invokes the
\* research agent for it again
SearchFailsRetries ==
    /\ pc = "L102"
    /\ \E i \in DOMAIN tasks :
        /\ tasks[i] = "running"
        /\ IF Cardinality({j \in DOMAIN calls :
                              /\ calls[j].stage = "search"
                              /\ calls[j].arg = i}) = 1
           THEN /\ calls' = Append(calls, Call("search", i))
                /\ UNCHANGED <<tasks, done>>
           ELSE /\ tasks' = [tasks EXCEPT ![i] = "failed"]
                /\ done' = Append(done, i)
                /\ UNCHANGED calls
    /\ UNCHANGED <<pc, events, exc, runLocals, results, evaluations,
                   outside>>

\* SearchFails without the try/except of lines 112-117: the exception of the
\* awaited task leaves perform_searches and run()
SearchFailsPropagates ==
    /\ pc = "L102"
    /\ \E i \in DOMAIN tasks :
        /\ tasks[i] = "running"
        /\ tasks' = [tasks EXCEPT ![i] = "failed"]
    /\ pc' = "raised"
    /\ exc' = "search"
    /\ UNCHANGED <<events, calls, runLocals, done, results, evaluations,
                   outside>>

\* lines 115-117: the research agent raises; search() returns None
SearchFails ==
    /\ pc = "L102"
    /\ \E i \in DOMAIN tasks :
        /\ tasks[i] = "running"
        /\ tasks' = [tasks EXCEPT ![i] = "failed"]
        /\ done' = Append(done, i)
    /\ UNCHANGED <<pc, events, calls, exc, runLocals, results, evaluations,
                   outside>>

\* CollectResult with a progress string per awaited task
CollectResultAnnounces ==
    /\ pc = "L102"
    /\ done # <<>>
    /\ results' = Collected(results, Head(done), tasks[Head(done)])
    /\ done' = Tail(done)
    /\ events' = Append(events, Event("search_done", Head(done)))
    /\ UNCHANGED <<pc, calls, exc, runLocals, tasks, evaluations,
                   outside>>

\* lines 102-105: one iteration of the as_completed loop
CollectResult ==
    /\ pc = "L102"
    /\ done # <<>>
    /\ results' = Collected(results, Head(done), tasks[Head(done)])
    /\ done' = Tail(done)
    /\ UNCHANGED <<pc, events, calls, exc, runLocals, tasks, evaluations,
                   outside>>

AllAwaited ==
    /\ \A i \in DOMAIN tasks : tasks[i] \in {"ok", "failed"}
    /\ done = <<>>


\* ReturnSearches handing back the payloads in plan order, as a gather of
\* the tasks would
ReturnSearchesInPlanOrder ==
    /\ pc = "L102"
    /\ AllAwaited
    /\ research_results' =
         (LET ok == {i \in DOMAIN tasks : tasks[i] = "ok"}
          IN  CHOOSE q \in [1..Cardinality(ok) -> ok] :
                  \A a, b \in 1..Cardinality(ok) : a < b => q[a] < q[b])
    /\ pc' = "L52"
    /\ UNCHANGED <<events, calls, exc, search_plan, story, evaluation,
                   attempts, fanLocals, evaluations,
                   outside>>

\* ReturnSearches as soon as nothing is waiting to be collected, whether or
\* not every task has finished
ReturnSearchesEarly ==
    /\ pc = "L102"
    /\ done = <<>>
    /\ research_results' = results
    /\ pc' = "L52"
    /\ UNCHANGED <<events, calls, exc, search_plan, story, evaluation,
                   attempts, fanLocals, evaluations,
                   outside>>

\* lines 106-107 and the assignment of line 51
ReturnSearches ==
    /\ pc = "L102"
    /\ AllAwaited
    /\ research_results' = results
    /\ pc' = "L52"
    /\ UNCHANGED <<events, calls, exc, search_plan, story, evaluation,
                   attempts, fanLocals, evaluations,
                   outside>>

\* YieldFound reporting how many searches were planned
YieldFoundCountsPlanned ==
    /\ pc = "L52"
    /\ Yield("L55", "found", search_plan)

YieldFound ==
    /\ pc = "L52"
    /\ Yield("L55", "found", Len(research_results))

----------------------------------------------------------------------------
\* Step 3: write the story

YieldWriting ==
    /\ pc = "L55"
    /\ Yield("L56", "writing", 0)

CallWriter ==
    /\ pc = "L56"
    /\ pc' = "L56_await"
    /\ Invoke("write", [research_results |-> research_results])
    /\ UNCHANGED <<events, exc, runLocals, fanLocals, evaluations,
                   outside>>

WriterReturns ==
    /\ pc = "L56_await"
    /\ \E s \in BedtimeStory(1) : story' = s
    /\ pc' = "L57"
    /\ UNCHANGED <<events, calls, exc, search_plan, research_results,
                   evaluation, attempts, fanLocals, evaluations,
                   outside>>

\* WriterFails swallowed: run() goes on without a story
WriterFailsContinues ==
    /\ pc = "L56_await"
    /\ pc' = "L57"
    /\ exc' = "write"
    /\ UNCHANGED <<events, calls, runLocals, fanLocals, evaluations,
                   outside>>

WriterFails ==
    /\ pc = "L56_await"
    /\ Raise("write")

YieldDraft ==
    /\ pc = "L57"
    /\ Yield("L60", "draft", story.ver)

----------------------------------------------------------------------------
\* Step 4: evaluate and revise loop

YieldChecking ==
    /\ pc = "L60"
    /\ Yield("L61", "checking", 0)

CallGuardian ==
    /\ pc \in {"L61", "L71"}
    /\ pc' = (IF pc = "L61" THEN "L61_await" ELSE "L71_await")
    /\ Invoke("evaluate", [story |-> story])
    /\ UNCHANGED <<events, exc, runLocals, fanLocals, evaluations,
                   outside>>

\* lines 61 and 63
FirstEvaluation ==
    /\ pc = "L61_await"
    /\ \E e \in StoryEvaluation(Len(evaluations) + 1) :
        /\ evaluation' = e
        /\ evaluations' = Append(evaluations, e)
    /\ attempts' = 0
    /\ pc' = "L64"
    /\ UNCHANGED <<events, calls, exc, search_plan, research_results, story,
                   fanLocals,
                   outside>>

\* NextEvaluation counting the evaluation as one more attempt
NextEvaluationCounts ==
    /\ pc = "L71_await"
    /\ \E e \in StoryEvaluation(Len(evaluations) + 1) :
        /\ evaluation' = e
        /\ evaluations' = Append(evaluations, e)
    /\ attempts' = attempts + 1
    /\ pc' = "L64"
    /\ UNCHANGED <<events, calls, exc, search_plan, research_results, story,
                   fanLocals,
                   outside>>

\* line 71
NextEvaluation ==
    /\ pc = "L71_await"
    /\ \E e \in StoryEvaluation(Len(evaluations) + 1) :
        /\ evaluation' = e
        /\ evaluations' = Append(evaluations, e)
    /\ pc' = "L64"
    /\ UNCHANGED <<events, calls, exc, search_plan, research_results, story,
                   attempts, fanLocals,
                   outside>>

\* GuardianFails handled as a rejection that the loop may retry
GuardianFailsAsRejection ==
    /\ pc \in {"L61_await", "L71_await"}
    /\ evaluation' = [is_approved |-> FALSE, issues_found |-> <<>>]
    /\ attempts' = (IF pc = "L61_await" THEN 0 ELSE attempts)
    /\ exc' = "evaluate"
    /\ pc' = "L64"
    /\ UNCHANGED <<events, calls, search_plan, research_results, story,
                   fanLocals, evaluations,
                   outside>>

GuardianFails ==
    /\ pc \in {"L61_await", "L71_await"}
    /\ Raise("evaluate")

\* LoopCondition with <= for <
LoopConditionInclusive(ev, att) ==
    ~ev.is_approved /\ att <= MAX_REVISION_ATTEMPTS

\* LoopCondition stopping one attempt early
LoopConditionShort(ev, att) ==
    ~ev.is_approved /\ att < MAX_REVISION_ATTEMPTS - 1

\* LoopCondition without the approval test
LoopConditionIgnoresVerdict(ev, att) ==
    att < MAX_REVISION_ATTEMPTS

\* LoopCondition without the attempt cap
LoopConditionUnbounded(ev, att) == ~ev.is_approved

\* the while condition of line 64
LoopCondition(ev, att) ==
    ~ev.is_approved /\ att < MAX_REVISION_ATTEMPTS

\* lines 64-66: the loop is entered
YieldRevising ==
    /\ pc = "L64"
    /\ LoopCondition(evaluation, attempts)
    /\ attempts' = attempts + 1
    /\ Emit("revising", attempts')
    /\ pc' = "L67"
    /\ UNCHANGED <<calls, exc, search_plan, research_results, story,
                   evaluation, fanLocals, evaluations,
                   outside>>

YieldIssues ==
    /\ pc = "L67"
    /\ Yield("L68", "issues", evaluation.issues_found)



\* CallReviser handing over the issues of the first evaluation
CallReviserStaleIssues ==
    /\ pc = "L68"
    /\ pc' = "L68_await"
    /\ Invoke("revise", [story |-> story,
                         issues_found |-> evaluations[1].issues_found,
                         research_results |-> research_results])
    /\ UNCHANGED <<events, exc, runLocals, fanLocals, evaluations,
                   outside>>

\* CallReviser counting the call as one more attempt
CallReviserCounts ==
    /\ pc = "L68"
    /\ pc' = "L68_await"
    /\ Invoke("revise", [story |-> story,
                         issues_found |-> evaluation.issues_found,
                         research_results |-> research_results])
    /\ attempts' = attempts + 1
    /\ UNCHANGED <<events, exc, search_plan, research_results, story,
                   evaluation, fanLocals, evaluations,
                   outside>>

CallReviser ==
    /\ pc = "L68"
    /\ pc' = "L68_await"
    /\ Invoke("revise", [story |-> story,
                         issues_found |-> evaluation.issues_found,
                         research_results |-> research_results])
    /\ UNCHANGED <<events, exc, runLocals, fanLocals, evaluations,
                   outside>>


\* ReviserReturns going straight to the loop test after the last permitted
\* revision, without an evaluation of the new draft
ReviserReturnsUnchecked ==
    /\ pc = "L68_await"
    /\ \E s \in BedtimeStory(story.ver + 1) : story' = s
    /\ pc' = (IF attempts = MAX_REVISION_ATTEMPTS THEN "L64" ELSE "L71")
    /\ UNCHANGED <<events, calls, exc, search_plan, research_results,
                   evaluation, attempts, fanLocals, evaluations,
                   outside>>

ReviserReturns ==
    /\ pc = "L68_await"
    /\ \E s \in BedtimeStory(story.ver + 1) : story' = s
    /\ pc' = "L71"
    /\ UNCHANGED <<events, calls, exc, search_plan, research_results,
                   evaluation, attempts, fanLocals, evaluations,
                   outside>>

ReviserFails ==
    /\ pc = "L68_await"
    /\ Raise("revise")

----------------------------------------------------------------------------
\* Final result

\* FinalCondition surfacing whatever draft is current
FinalConditionBestEffort(ev) == TRUE


\* FinalCondition that treats the cap as exhaustion whatever the verdict
FinalConditionBeforeCap(ev) ==
    ev.is_approved /\ attempts < MAX_REVISION_ATTEMPTS

\* the condition of line 74
FinalCondition(ev) == ev.is_approved

\* lines 64 (loop left), 74, 75
YieldApproved ==
    /\ pc = "L64"
    /\ ~LoopCondition(evaluation, attempts)
    /\ FinalCondition(evaluation)
    /\ Yield("L76", "approved", 0)

YieldReadingTime ==
    /\ pc = "L76"
    /\ Yield("L77", "reading_time", story.ver)

YieldMoral ==
    /\ pc = "L77"
    /\ Yield("L78", "moral", story.ver)

\* lines 78-79
YieldFunFact ==
    /\ pc = "L78"
    /\ story.fun_fact_included
    /\ Yield("L80", "fun_fact", story.ver)

\* line 80, reached from line 79 or straight from the test of line 78
YieldSeparator ==
    /\ pc = "L80" \/ (pc = "L78" /\ ~story.fun_fact_included)
    /\ Yield("L81", "separator", 0)

\* line 81, after which the generator is exhausted
YieldStory ==
    /\ pc = "L81"
    /\ Yield("done", "story", story)

\* lines 64 (loop left), 74, 83
YieldFailed ==
    /\ pc = "L64"
    /\ ~LoopCondition(evaluation, attempts)
    /\ ~FinalCondition(evaluation)
    /\ Yield("L84", "failed", 0)

\* line 84, after which the generator is exhausted
YieldAdvice ==
    /\ pc = "L84"
    /\ Yield("done", "advice", 0)

----------------------------------------------------------------------------
Next ==
    \/ YieldTraceLink \/ YieldPlanning \/ CallPlanner \/ PlannerReturns
    \/ PlannerFails \/ YieldTheme
    \/ YieldResearching \/ LaunchSearches \/ SearchReturns \/ SearchFails
    \/ CollectResult \/ ReturnSearches \/ YieldFound
    \/ YieldWriting \/ CallWriter \/ WriterReturns \/ WriterFails \/ YieldDraft
    \/ YieldChecking \/ CallGuardian \/ FirstEvaluation \/ NextEvaluation
    \/ GuardianFails \/ YieldRevising \/ YieldIssues \/ CallReviser
    \/ ReviserReturns \/ ReviserFails
    \/ YieldApproved \/ YieldReadingTime \/ YieldMoral \/ YieldFunFact
    \/ YieldSeparator \/ YieldStory \/ YieldFailed \/ YieldAdvice

Spec == Init /\ [][Next]_vars

----------------------------------------------------------------------------
\* Vocabulary of the properties

Succeeded == {i \in DOMAIN tasks : tasks[i] = "ok"}
Failed == {i \in DOMAIN tasks : tasks[i] = "failed"}
Elements(seq) == {seq[i] : i \in DOMAIN seq}

\* indices of the events of a kind / of the calls of a stage
EventsOf(kind) == {i \in DOMAIN events : events[i].kind = kind}
CallsOf(stage) == {i \in DOMAIN calls : calls[i].stage = stage}
Emitted(kind) == EventsOf(kind) # {}

\* perform_searches has returned to run()
PastFanout ==
    /\ pc \notin {"L42", "L45", "L46", "L46_await", "L47", "L50", "L51", "L102"}
    /\ pc = "raised" => exc \in {"write", "evaluate", "revise"}

\* the generator has finished, normally or by an exception
Terminated == pc \in {"done", "raised"}

AllRejected ==
    /\ evaluations # <<>>
    /\ \A k \in DOMAIN evaluations : ~evaluations[k].is_approved

----------------------------------------------------------------------------
\* C1: if K of the N search subtasks succeed, perform_searches returns exactly
\* K entries (the payloads of the K successful subtasks, each once); while the
\* batch runs, the list holds exactly the successful subtasks awaited so far,
\* and a failing subtask never ends the batch with an exception.
C1_FanoutKeepsExactlySuccesses ==
    /\ pc = "L102" =>
          /\ Elements(results) = Succeeded \ Elements(done)
          /\ Len(results) = Cardinality(Succeeded \ Elements(done))
    /\ PastFanout =>
          /\ Len(research_results) = Cardinality(Succeeded)
          /\ Elements(research_results) = Succeeded
          /\ Succeeded \cup Failed = 1..search_plan
    /\ exc # "search"

\* a batch of 3 has returned with 2 successes and 1 failure
C1_Witness ==
    /\ PastFanout
    /\ search_plan = 3
    /\ Cardinality(Succeeded) = 2
    /\ Cardinality(Failed) = 1
    /\ Len(research_results) = 2

\* C2: the revision counter stays within 0..MAX_REVISION_ATTEMPTS in every
\* state of a run, whatever the guardian answers.
C2_AttemptsBounded ==
    attempts \in 0..MAX_REVISION_ATTEMPTS

\* the cap is reached and the guardian has rejected once more
C2_Witness ==
    /\ attempts = MAX_REVISION_ATTEMPTS
    /\ Len(evaluations) = MAX_REVISION_ATTEMPTS + 1
    /\ ~evaluation.is_approved
    /\ pc = "L64"

\* C3: with a guardian that rejects every draft there are never more than
\* MAX_REVISION_ATTEMPTS revisions, and the run that ends has made exactly
\* that many, has attempts = MAX_REVISION_ATTEMPTS and ends with the failure
\* notice (no approval, no story).
C3_RejectAlwaysExhausts ==
    AllRejected =>
        /\ Cardinality(CallsOf("revise")) <= MAX_REVISION_ATTEMPTS
        /\ Cardinality(EventsOf("revising")) <= MAX_REVISION_ATTEMPTS
        /\ pc \in {"L84", "done"} =>
              /\ Cardinality(CallsOf("revise")) = MAX_REVISION_ATTEMPTS
              /\ Cardinality(EventsOf("revising")) = MAX_REVISION_ATTEMPTS
              /\ Len(evaluations) = MAX_REVISION_ATTEMPTS + 1
              /\ attempts = MAX_REVISION_ATTEMPTS
              /\ Emitted("failed")
              /\ ~Emitted("approved") /\ ~Emitted("story")
        /\ (pc = "L64" /\ attempts = MAX_REVISION_ATTEMPTS) =>
              ENABLED YieldFailed /\ ~ENABLED YieldRevising

\* a run of four rejections has ended
C3_Witness ==
    /\ pc = "done"
    /\ AllRejected
    /\ Len(evaluations) = 4
    /\ events[Len(events)].kind = "advice"

\* C4: once the first evaluation has approved, no revision is ever called,
\* attempts stays 0, the run is on the approved branch and ends with the
\* story.
C4_FirstApprovalShortCircuits ==
    (evaluations # <<>> /\ evaluations[1].is_approved) =>
        /\ CallsOf("revise") = {}
        /\ ~Emitted("revising")
        /\ attempts = 0
        /\ Len(evaluations) = 1
        /\ pc \in {"L64", "L76", "L77", "L78", "L80", "L81", "done"}
        /\ pc # "L64" => Emitted("approved")
        /\ pc = "done" => events[Len(events)] = Event("story", story)
        /\ pc = "L64" => ENABLED YieldApproved /\ ~ENABLED YieldRevising

\* the run ended after a first approval
C4_Witness ==
    /\ pc = "done"
    /\ Len(evaluations) = 1
    /\ evaluations[1].is_approved
    /\ Emitted("story")

\* C5: when an evaluation call raises, the run is over at once: the
\* generator is dead (nothing further can happen), the failing evaluation is
\* the last capability call (no revision after it), and neither the approval
\* nor the story is ever emitted, although a draft exists.
C5_EvaluationFailureEndsRun ==
    exc = "evaluate" =>
        /\ pc = "raised"
        /\ ~ENABLED Next
        /\ calls[Len(calls)].stage = "evaluate"
        /\ Cardinality(CallsOf("evaluate")) = Len(evaluations) + 1
        /\ ~Emitted("approved") /\ ~Emitted("story") /\ ~Emitted("separator")
        /\ story.ver >= 1

\* the evaluation of a revised draft raised
C5_Witness ==
    /\ exc = "evaluate"
    /\ pc = "raised"
    /\ story.ver = 2
    /\ Len(evaluations) = 1

----------------------------------------------------------------------------
\* C6: the story is emitted only while the latest evaluation approves, and
\* the emitted story is the draft that this evaluation was called on (the
\* argument of the last guardian call); a run exhausted by a rejection emits
\* no story at all.
C6_StoryOnlyIfApproved ==
    /\ \A i \in EventsOf("story") :
          /\ evaluation.is_approved
          /\ evaluation = evaluations[Len(evaluations)]
          /\ LET last == CHOOSE c \in CallsOf("evaluate") :
                            \A d \in CallsOf("evaluate") : d <= c
             IN  /\ events[i].arg = calls[last].arg.story
                 /\ Cardinality(CallsOf("evaluate")) = Len(evaluations)
                 /\ \A d \in CallsOf("revise") \cup CallsOf("write") : d < last
    /\ (pc \in {"L84", "done"} /\ ~evaluation.is_approved) => ~Emitted("story")

\* the story emitted is the second revision, approved by the third evaluation
C6_Witness ==
    /\ pc = "done"
    /\ Emitted("story")
    /\ events[Len(events)].arg.ver = 3
    /\ Len(evaluations) = 3

\* C7: in a run whose plan has 5 searches of which 2 fail, the writer is
\* called with exactly 3 results; a run whose first evaluation rejects and
\* whose second approves ends on the success branch (story emitted last, no
\* failure notice) with attempts = 1.
C7_FiveSearchesOneRevision ==
    /\ (search_plan = 5 /\ Cardinality(Failed) = 2) =>
          \A c \in CallsOf("write") :
              /\ Len(calls[c].arg.research_results) = 3
              /\ Elements(calls[c].arg.research_results) = Succeeded
    /\ ( /\ pc = "done"
         /\ Len(evaluations) = 2
         /\ ~evaluations[1].is_approved
         /\ evaluations[2].is_approved ) =>
          /\ attempts = 1
          /\ events[Len(events)] = Event("story", story)
          /\ Emitted("approved") /\ ~Emitted("failed")
          /\ Cardinality(CallsOf("revise")) = 1

\* the whole scenario in one finished run
C7_Witness ==
    /\ pc = "done"
    /\ search_plan = 5
    /\ Cardinality(Failed) = 2
    /\ Len(research_results) = 3
    /\ Len(evaluations) = 2
    /\ ~evaluations[1].is_approved
    /\ evaluations[2].is_approved
    /\ attempts = 1

\* the events of a run in stage order, as far as the values of the state
\* determine them: none of them depends on the order in which the searches
\* completed (only on how many succeeded)
StageOrder ==
    << Event("trace", 0), Event("planning", 0), Event("theme", 0),
       Event("researching", 0), Event("found", Cardinality(Succeeded)),
       Event("writing", 0), Event("draft", 1), Event("checking", 0) >>

RECURSIVE RevisionEvents(_)
RevisionEvents(k) ==
    IF k = 0 THEN <<>>
    ELSE RevisionEvents(k - 1)
         \o << Event("revising", k),
               Event("issues", evaluations[k].issues_found) >>

TerminalEvents ==
    IF evaluation.is_approved
    THEN << Event("approved", 0), Event("reading_time", story.ver),
            Event("moral", story.ver) >>
         \o (IF story.fun_fact_included
             THEN << Event("fun_fact", story.ver) >> ELSE <<>>)
         \o << Event("separator", 0), Event("story", story) >>
    ELSE << Event("failed", 0), Event("advice", 0) >>

IsPrefix(a, b) == Len(a) <= Len(b) /\ a = SubSeq(b, 1, Len(a))

\* how many events have been emitted when the generator is at a label
EventsAt(label) ==
    CASE label = "L42" -> 0
      [] label = "L45" -> 1
      [] label \in {"L46", "L46_await"} -> 2
      [] label \in {"L47"} -> 2
      [] label = "L50" -> 3
      [] label \in {"L51", "L102", "L52"} -> 4
      [] label = "L55" -> 5
      [] label \in {"L56", "L56_await", "L57"} -> 6
      [] label = "L60" -> 7
      [] label \in {"L61", "L61_await"} -> 8
      [] label = "L64" -> 8 + 2 * attempts
      [] label = "L67" -> 8 + 2 * attempts - 1
      [] label \in {"L68", "L68_await", "L71", "L71_await"} -> 8 + 2 * attempts
      [] label \in {"L76", "L84"} -> 8 + 2 * attempts + 1
      [] label = "L77" -> 8 + 2 * attempts + 2
      [] label = "L78" -> 8 + 2 * attempts + 3
      [] label = "L80" -> 8 + 2 * attempts + 4
      [] label = "L81" -> 8 + 2 * attempts + 4
                          + (IF story.fun_fact_included THEN 1 ELSE 0)
      [] label = "done" -> 8 + 2 * attempts + Len(TerminalEvents)

\* C8: the events emitted so far are exactly the events of the stages
\* executed so far, in stage order (planning, research, writing, evaluation,
\* each revision, terminal); the sequence is fixed by how many searches
\* succeeded and by what writer and guardian returned, never by the order in
\* which the searches completed, and nothing is emitted during the fan-out.
C8_EventsInStageOrder ==
    /\ IsPrefix(events, StageOrder \o RevisionEvents(attempts) \o TerminalEvents)
    /\ pc # "raised" => Len(events) = EventsAt(pc)
    /\ CallsOf("plan") # {} => Len(events) >= 2
    /\ CallsOf("search") # {} => Len(events) >= 4
    /\ Len(events) >= 5 => PastFanout
    /\ CallsOf("write") # {} => Len(events) >= 6
    /\ CallsOf("evaluate") # {} => Len(events) >= 8
    /\ \A k \in 1..MAX_REVISION_ATTEMPTS :
          /\ Cardinality(CallsOf("revise")) >= k => Len(events) >= 8 + 2 * k
          /\ Len(events) >= 8 + 2 * k - 1 /\ attempts >= k
                => Cardinality(CallsOf("evaluate")) >= k

\* two successes completed in the reverse of plan order, run finished after
\* one revision
C8_Witness ==
    /\ pc = "done"
    /\ research_results = <<2, 1>>
    /\ attempts = 1
    /\ Len(events) = 16

\* C9: when every search of a non-empty plan fails, perform_searches returns
\* the empty list and raises nothing: the run goes on to the writer, which
\* is called with zero research results.
C9_AllSearchesFail ==
    (search_plan > 0 /\ Failed = 1..search_plan /\ DOMAIN tasks = Failed) =>
        /\ exc # "search"
        /\ results = <<>>
        /\ (pc = "L102" /\ done = <<>>) => ENABLED ReturnSearches
        /\ PastFanout => research_results = <<>>
        /\ pc = "L52" => ENABLED YieldFound
        /\ pc = "L56" => ENABLED CallWriter
        /\ \A c \in CallsOf("write") : calls[c].arg.research_results = <<>>

\* all three searches failed and the writer has been called
C9_Witness ==
    /\ search_plan = 3
    /\ Failed = 1..3
    /\ CallsOf("write") # {}
    /\ pc = "L57"

\* C10: every run that has ended has emitted exactly one terminal result
\* (the story, or the failure notice) and ends with it.
C10_OneTerminalResultLast ==
    Terminated =>
        /\ Cardinality(EventsOf("story")) + Cardinality(EventsOf("failed")) = 1
        /\ events # <<>>
        /\ events[Len(events)].kind \in {"story", "advice"}

----------------------------------------------------------------------------
\* C11: every terminal failure of a run reports the number of revision
\* attempts made and the issue list of the last evaluation.  Read in the
\* claim's favour: the failure notice, or any string yielded before it,
\* carries the final attempt count and the issues of the evaluation that is
\* current when the run fails.
C11_FailureReportsAttemptsAndIssues ==
    (pc = "done" /\ Emitted("failed")) =>
        /\ \E i \in EventsOf("revising") \cup EventsOf("failed") :
              events[i].arg = attempts
        /\ \E i \in EventsOf("issues") : events[i].arg = evaluation.issues_found

\* C12: when the planner, the writer or the reviser raises, the exception
\* leaves run(): the generator is dead, the failing call is the last
\* capability call ever made (no later stage is invoked) and neither the
\* approval nor the story is emitted.
C12_StageFailureEndsRun ==
    exc \in {"plan", "write", "revise"} =>
        /\ pc = "raised"
        /\ ~ENABLED Next
        /\ calls[Len(calls)].stage = exc
        /\ exc = "plan" => Len(calls) = 1 /\ Len(events) = 2
        /\ exc = "write" => CallsOf("evaluate") \cup CallsOf("revise") = {}
        /\ exc = "revise" =>
              Cardinality(CallsOf("evaluate")) = Cardinality(CallsOf("revise"))
        /\ ~Emitted("approved") /\ ~Emitted("story") /\ ~Emitted("separator")

\* the second revision raised
C12_Witness ==
    /\ exc = "revise"
    /\ pc = "raised"
    /\ Cardinality(CallsOf("revise")) = 2
    /\ story.ver = 2

Running == {i \in DOMAIN tasks : tasks[i] = "running"}

\* C13: the writer is called only when every launched search has finished
\* and has been collected, and from then on the research list is frozen:
\* the writer and every reviser call receive the list run() holds, which is
\* the list perform_searches built from the successful searches.
C13_ResearchFrozenAtSynthesis ==
    /\ CallsOf("write") # {} =>
          /\ Running = {}
          /\ done = <<>>
          /\ Succeeded \cup Failed = 1..search_plan
          /\ research_results = results
          /\ Elements(research_results) = Succeeded
    /\ \A c \in CallsOf("write") \cup CallsOf("revise") :
          calls[c].arg.research_results = research_results

\* the third revision was called with the two results of a plan of three
C13_Witness ==
    /\ Cardinality(CallsOf("revise")) = 3
    /\ search_plan = 3
    /\ Len(research_results) = 2
    /\ calls[Len(calls)].arg.research_results = research_results

\* the stage whose call run() is suspended in
AwaitedStage ==
    CASE pc = "L46_await" -> "plan"
      [] pc = "L56_await" -> "write"
      [] pc \in {"L61_await", "L71_await"} -> "evaluate"
      [] pc = "L68_await" -> "revise"
      [] OTHER -> "none"

\* stage calls invoked / stage calls that have returned or raised
StageCallsInvoked ==
    Cardinality(CallsOf("plan") \cup CallsOf("write")
                \cup CallsOf("evaluate") \cup CallsOf("revise"))
StageCallsEnded ==
    (IF CallsOf("plan") = {} \/ pc = "L46_await" \/ exc = "plan" THEN 0 ELSE 1)
    + story.ver + Len(evaluations) + (IF exc = "none" THEN 0 ELSE 1)

\* the stage of the i-th capability call of a run
StageInOrder(i) ==
    IF i = 1 THEN "plan"
    ELSE IF i <= 1 + search_plan THEN "search"
    ELSE IF i = 2 + search_plan THEN "write"
    ELSE IF (i - search_plan) % 2 = 1 THEN "evaluate" ELSE "revise"

\* C14: the capability calls of a run are made in the order planning, the
\* searches, synthesis, then evaluation and revision in turn; at most one
\* stage call is in flight at any time (it is the one run() is suspended
\* in), and while a search is in flight no stage call is.
C14_StagesSequential ==
    /\ \A i \in DOMAIN calls : calls[i].stage = StageInOrder(i)
    /\ StageCallsInvoked - StageCallsEnded =
          (IF AwaitedStage = "none" THEN 0 ELSE 1)
    /\ AwaitedStage # "none" => calls[Len(calls)].stage = AwaitedStage
    /\ Running # {} => pc = "L102" /\ AwaitedStage = "none"

\* after three searches were in flight together, a revision is in flight
\* alone
C14_Witness ==
    /\ AwaitedStage = "revise"
    /\ Cardinality(CallsOf("search")) = 3
    /\ Running = {}

\* C15: nothing is emitted during the fan-out; the one aggregate event comes
\* right after 'researching' and right before 'writing', when every search
\* has finished, and its count is the number of searches that succeeded.
C15_OneAggregateEvent ==
    /\ pc = "L102" => Len(events) = 4 /\ events[4].kind = "researching"
    /\ EventsOf("researching") \subseteq {4}
    /\ EventsOf("found") \subseteq {5}
    /\ EventsOf("writing") \subseteq {6}
    /\ Emitted("writing") => Emitted("found")
    /\ \A i \in EventsOf("found") :
          /\ events[i].arg = Cardinality(Succeeded)
          /\ Running = {} /\ done = <<>>
          /\ Succeeded \cup Failed = 1..search_plan
    /\ \A i \in DOMAIN events : events[i].kind # "search_done"

\* one of three searches succeeded and the aggregate event says 1
C15_Witness ==
    /\ Emitted("writing")
    /\ search_plan = 3
    /\ Cardinality(Succeeded) = 1
    /\ events[5] = Event("found", 1)

----------------------------------------------------------------------------
\* Calls that never return.  No call of the repository is given a timeout
\* (no asyncio.wait_for / asyncio.timeout around any Runner.run), so a call
\* that never returns is awaited for ever.

\* line 113: the research agent never answers task i
SearchHangs ==
    /\ pc = "L102"
    /\ \E i \in DOMAIN tasks :
        /\ tasks[i] = "running"
        /\ tasks' = [tasks EXCEPT ![i] = "hung"]
    /\ UNCHANGED <<pc, events, calls, exc, runLocals, done, results,
                   evaluations,
                   outside>>

\* lines 91, 130, 143, 166: the agent of the awaited stage never answers
StageHangs ==
    /\ pc \in {"L46_await", "L56_await", "L61_await", "L68_await", "L71_await"}
    /\ pc' = "hung"
    /\ UNCHANGED <<events, calls, exc, runLocals, fanLocals, evaluations,
                   outside>>

NextTimeout == Next \/ SearchHangs \/ StageHangs

SpecTimeout == Init /\ [][NextTimeout]_vars

Hung == {i \in DOMAIN tasks : tasks[i] = "hung"}

\* C16: a call that never returns is ended by its timeout: with a hung search
\* and every other search finished and collected, the fan-out can still go
\* on (the hung search is dropped), and a run suspended in a hung stage
\* call can still go on (to its failure).
C16_TimeoutsEndHungCalls ==
    /\ (pc = "L102" /\ Hung # {} /\ Running = {} /\ done = <<>>)
          => ENABLED NextTimeout
    /\ pc = "hung" => ENABLED NextTimeout

----------------------------------------------------------------------------
\* The consumer of the generator (app.generate_story, `async for chunk in
\* StoryManager().run(...)`): the generator runs only while it is pulled.

\* the labels at which run() resumes after a yield, i.e. where it is
\* suspended in a yield and waits for the consumer
AfterYield ==
    {"L45", "L46", "L50", "L51", "L55", "L56", "L60", "L61", "L67", "L68",
     "L76", "L77", "L78", "L80", "L81", "L84"}

\* StopPulling delivered at any suspension point, also inside a stage call
\* or inside the fan-out
StopPullingMidStage ==
    /\ pc \notin {"done", "raised", "abandoned"}
    /\ pc' = "abandoned"
    /\ UNCHANGED <<events, calls, exc, runLocals, fanLocals, evaluations,
                   outside>>

\* the consumer stops iterating after the string it just received: run()
\* stays suspended in that yield and is never resumed
StopPulling ==
    /\ pc \in AfterYield
    /\ pc' = "abandoned"
    /\ UNCHANGED <<events, calls, exc, runLocals, fanLocals, evaluations,
                   outside>>

NextCancel == Next \/ StopPulling

SpecCancel == Init /\ [][NextCancel]_vars

\* C17: once the consumer has stopped pulling nothing further happens in the
\* run: no stage call and no search is started; no stage call is in flight
\* (the last one has returned), and every search that was launched has run
\* to completion and been collected: none is left in flight or cut off.
C17_CancelledRunStartsNothing ==
    pc = "abandoned" =>
        /\ ~ENABLED NextCancel
        /\ events # <<>>
        /\ StageCallsInvoked = StageCallsEnded
        /\ Running = {} /\ done = <<>>
        /\ Succeeded \cup Failed = DOMAIN tasks
        /\ Len(events) >= 5 => Len(research_results) = Cardinality(Succeeded)

\* the consumer stopped after 'found': both searches had completed
C17_Witness ==
    /\ pc = "abandoned"
    /\ Len(events) = 5
    /\ DOMAIN tasks = 1..2
    /\ Cardinality(Succeeded) = 1

----------------------------------------------------------------------------
\* Every capability call eventually returns or raises and the consumer keeps
\* pulling: no step of the run is postponed for ever.
FairSpec == Spec /\ WF_vars(Next)

\* C19: under these conditions every run ends (normally or by an
\* exception), it never makes more than MAX_REVISION_ATTEMPTS revisions,
\* and once it has ended nothing more is emitted.
C19_StreamFinite ==
    /\ <>Terminated
    /\ [](Cardinality(CallsOf("revise")) <= MAX_REVISION_ATTEMPTS)
    /\ [][Terminated => events' = events /\ Terminated']_vars

\* a run has ended after the full number of revisions
C19_Witness ==
    /\ pc = "done"
    /\ Cardinality(CallsOf("revise")) = MAX_REVISION_ATTEMPTS
    /\ Emitted("story")

----------------------------------------------------------------------------
\* 6_mcp/community_contributions/shopping_list_mcp: the ShoppingList behind
\* the MCP tools of server.py.  Strings are sequences of characters.

\* Bound: no item quantity beyond MaxQuantity is built up
MaxQuantity == 3

\* item names the tools are called with: "M", " m ", "m ", "B"
NameInputs == { <<"M">>, <<" ", "m", " ">>, <<"m", " ">>, <<"B">> }
QuantityInputs == {1, 2}
CategoryInputs == {"General", "Dairy"}
PriceInputs == {NoPrice, 2}
BudgetInputs == {0, 10, 100}

\* str.lower()
LowerChar(c) ==
    CASE c = "M" -> "m"
      [] c = "B" -> "b"
      [] OTHER -> c
Lower(str) == [i \in 1..Len(str) |-> LowerChar(str[i])]

\* str.strip()
RECURSIVE LStrip(_)
LStrip(str) ==
    IF str # <<>> /\ str[1] = " " THEN LStrip(Tail(str)) ELSE str
RECURSIVE RStrip(_)
RStrip(str) ==
    IF str # <<>> /\ str[Len(str)] = " "
    THEN RStrip(SubSeq(str, 1, Len(str) - 1)) ELSE str
Strip(str) == RStrip(LStrip(str))

\* lines 45 and 73: key = name.lower().strip()
Key(name) == Strip(Lower(name))

\* the dict with one more key / with one key less
DictSet(d, key, v) ==
    [k \in DOMAIN d \cup {key} |-> IF k = key THEN v ELSE d[k]]
DictPop(d, key) == [k \in DOMAIN d \ {key} |-> d[k]]

\* AddItem that sets the quantity of an existing item instead of adding to it
AddItemOverwrites ==
    /\ \E name \in NameInputs, quantity \in QuantityInputs,
          category \in CategoryInputs, price \in PriceInputs :
        LET key == Key(name)
            item == IF key \in DOMAIN items
                    THEN [items[key] EXCEPT !.quantity = quantity]
                    ELSE [name |-> Strip(name), quantity |-> quantity,
                          category |-> category, price |-> price]
        IN  /\ item.quantity <= MaxQuantity
            /\ items' = DictSet(items, key, item)
            /\ reply' =
                 [call |-> [op |-> "add_item", name |-> name,
                            quantity |-> quantity],
                  result |-> [success |-> TRUE,
                              action |-> IF key \in DOMAIN items
                                         THEN "updated" ELSE "added",
                              item |-> item]]
    /\ UNCHANGED <<budget, runVars, peerVars, appVars>>

\* ShoppingList.add_item (lines 37-69), called by the tool add_item
AddItem ==
    /\ \E name \in NameInputs, quantity \in QuantityInputs,
          category \in CategoryInputs, price \in PriceInputs :
        LET key == Key(name)
            item == IF key \in DOMAIN items
                    THEN [items[key] EXCEPT !.quantity = @ + quantity]
                    ELSE [name |-> Strip(name), quantity |-> quantity,
                          category |-> category, price |-> price]
        IN  /\ item.quantity <= MaxQuantity
            /\ items' = DictSet(items, key, item)
            /\ reply' =
                 [call |-> [op |-> "add_item", name |-> name,
                            quantity |-> quantity],
                  result |-> [success |-> TRUE,
                              action |-> IF key \in DOMAIN items
                                         THEN "updated" ELSE "added",
                              item |-> item]]
    /\ UNCHANGED <<budget, runVars, peerVars, appVars>>


\* RemoveItem looking the name up as it was given
RemoveItemExactName ==
    /\ \E name \in NameInputs :
        LET key == name
        IN  /\ items' = IF key \in DOMAIN items
                        THEN DictPop(items, key) ELSE items
            /\ reply' =
                 [call |-> [op |-> "remove_item", name |-> name,
                            quantity |-> 0],
                  result |-> [success |-> key \in DOMAIN items,
                              action |-> "", item |-> NoItem]]
    /\ UNCHANGED <<budget, runVars, peerVars, appVars>>

\* ShoppingList.remove_item (lines 71-85)
RemoveItem ==
    /\ \E name \in NameInputs :
        LET key == Key(name)
        IN  /\ items' = IF key \in DOMAIN items
                        THEN DictPop(items, key) ELSE items
            /\ reply' =
                 [call |-> [op |-> "remove_item", name |-> name,
                            quantity |-> 0],
                  result |-> [success |-> key \in DOMAIN items,
                              action |-> "", item |-> NoItem]]
    /\ UNCHANGED <<budget, runVars, peerVars, appVars>>

\* ShoppingList.clear_list (lines 101-108)
ClearList ==
    /\ items' = [k \in {} |-> NoItem]
    /\ reply' =
         [call |-> [op |-> "clear_list", name |-> <<>>,
                    quantity |-> Cardinality(DOMAIN items)],
          result |-> [success |-> TRUE, action |-> "", item |-> NoItem]]
    /\ UNCHANGED <<budget, runVars, peerVars, appVars>>

\* ShoppingList.set_budget (lines 113-120)
SetBudget ==
    /\ \E amount \in BudgetInputs :
        /\ budget' = amount
        /\ reply' =
             [call |-> [op |-> "set_budget", name |-> <<>>,
                        quantity |-> amount],
              result |-> [success |-> TRUE, action |-> "", item |-> NoItem]]
    /\ UNCHANGED <<items, runVars, peerVars, appVars>>

\* the sum of price * quantity over the items of keys that have a price
RECURSIVE CostOf(_)
CostOf(keys) ==
    IF keys = {} THEN 0
    ELSE LET k == CHOOSE k \in keys : TRUE
         IN  (IF items[k].price = NoPrice THEN 0
              ELSE items[k].price * items[k].quantity)
             + CostOf(keys \ {k})

\* ShoppingList.get_total_cost (lines 122-128)
GetTotalCost == CostOf(DOMAIN items)

\* lines 133-141: percentage = total / budget * 100 if budget > 0 else 0,
\* compared with 80 and 100 (here without the division)
StatusOf(total, limit) ==
    IF limit <= 0 THEN "on_track"
    ELSE IF total * 100 < 80 * limit THEN "on_track"
    ELSE IF total * 100 < 100 * limit THEN "approaching"
    ELSE "over_budget"

\* ShoppingList.get_budget_status (lines 129-150)
GetBudgetStatus ==
    /\ reply' =
         [call |-> [op |-> "get_budget_status", name |-> <<>>,
                    quantity |-> 0],
          result |-> [success |-> TRUE, total_cost |-> GetTotalCost,
                      budget |-> budget,
                      remaining |-> budget - GetTotalCost,
                      status |-> StatusOf(GetTotalCost, budget)]]
    /\ UNCHANGED <<items, budget, runVars, peerVars, appVars>>

NextShop ==
    AddItem \/ RemoveItem \/ ClearList \/ SetBudget \/ GetBudgetStatus

SpecShop == Init /\ [][NextShop]_vars

\* the key the claim speaks of: the name lower-cased and trimmed
Normalised(name) == Strip(Lower(name))

\* C20: add_item for a name whose normalised key is present adds the given
\* amount to that entry's quantity, changes nothing else and reports
\* 'updated'; otherwise it creates one entry with the given quantity and
\* reports 'added'.  Whatever the calls, no two entries have names that
\* normalise to the same key: each entry is filed under the key of its name.
C20_AddItemOneEntryPerKey ==
    /\ [](\A k \in DOMAIN items : Normalised(items[k].name) = k)
    /\ [][ reply'.call.op = "add_item" =>
            LET k == Normalised(reply'.call.name)
                q == reply'.call.quantity
            IN  /\ k \in DOMAIN items'
                /\ reply'.result.item = items'[k]
                /\ \A j \in DOMAIN items \ {k} :
                      j \in DOMAIN items' /\ items'[j] = items[j]
                /\ budget' = budget
                /\ IF k \in DOMAIN items
                   THEN /\ reply'.result.action = "updated"
                        /\ DOMAIN items' = DOMAIN items
                        /\ items'[k] =
                             [items[k] EXCEPT !.quantity = @ + q]
                   ELSE /\ reply'.result.action = "added"
                        /\ DOMAIN items' = DOMAIN items \cup {k}
                        /\ items'[k].quantity = q
          ]_shopVars

\* " m " was added to a list that already held "M": one entry, quantity 3
C20_Witness ==
    /\ reply.call.op = "add_item"
    /\ reply.call.name = <<" ", "m", " ">>
    /\ reply.result.action = "updated"
    /\ DOMAIN items = {<<"m">>}
    /\ items[<<"m">>].name = <<"M">>
    /\ items[<<"m">>].quantity = 3

----------------------------------------------------------------------------
\* app.py, generate_story (line 64): every request builds its own
\* StoryManager() and iterates its own run(); the host interleaves two such
\* generators at their suspension points.  The run variables are those of the
\* generator that executes; other holds the frame of the suspended one.

\* Bound: searches planned per run while two runs are interleaved
MaxPeerSearches == 1

\* the frame of the executing generator
Snapshot ==
    [pc |-> pc, events |-> events, calls |-> calls, exc |-> exc,
     search_plan |-> search_plan, research_results |-> research_results,
     story |-> story, evaluation |-> evaluation, attempts |-> attempts,
     tasks |-> tasks, done |-> done, results |-> results,
     evaluations |-> evaluations]

\* labels at which a generator is suspended: not started, after a yield,
\* inside an await, finished
Suspended ==
    AfterYield \cup {"L42", "L46_await", "L102", "L56_await", "L61_await",
                     "L68_await", "L71_await", "done", "raised"}

\* inputs kept small while two runs are interleaved: short plans, one issue
\* per rejection, and only the first draft may lack its fun fact
SmallRun ==
    /\ search_plan <= MaxPeerSearches
    /\ \A k \in DOMAIN evaluations : Len(evaluations[k].issues_found) <= 1
    /\ story.ver > 1 => story.fun_fact_included

\* Switch with the attempt counter kept on an object both runs use
SwitchSharedAttempts ==
    /\ pc \in Suspended
    /\ active' = 3 - active
    /\ other' = Snapshot
    /\ pc' = other.pc
    /\ events' = other.events
    /\ calls' = other.calls
    /\ exc' = other.exc
    /\ search_plan' = other.search_plan
    /\ research_results' = other.research_results
    /\ story' = other.story
    /\ evaluation' = other.evaluation
    /\ attempts' = attempts
    /\ tasks' = other.tasks
    /\ done' = other.done
    /\ results' = other.results
    /\ evaluations' = other.evaluations
    /\ UNCHANGED <<shopVars, appVars>>

\* the event loop suspends the executing generator and resumes the other one:
\* each generator keeps its own frame (the locals of run, lines 38-40, and of
\* perform_searches, lines 97-101)
Switch ==
    /\ pc \in Suspended
    /\ active' = 3 - active
    /\ other' = Snapshot
    /\ pc' = other.pc
    /\ events' = other.events
    /\ calls' = other.calls
    /\ exc' = other.exc
    /\ search_plan' = other.search_plan
    /\ research_results' = other.research_results
    /\ story' = other.story
    /\ evaluation' = other.evaluation
    /\ attempts' = other.attempts
    /\ tasks' = other.tasks
    /\ done' = other.done
    /\ results' = other.results
    /\ evaluations' = other.evaluations
    /\ UNCHANGED <<shopVars, appVars>>

NextTwoRuns == (Next /\ SmallRun') \/ Switch

SpecTwoRuns == Init /\ [][NextTwoRuns]_vars

\* story versions the executing run has received from the writer and reviser
DraftsReceived ==
    Cardinality(CallsOf("write") \cup CallsOf("revise"))
    - (IF pc \in {"L56_await", "L68_await"} \/ exc \in {"write", "revise"}
       THEN 1 ELSE 0)

\* C18: however the steps of two runs are interleaved, a step of one run
\* leaves the frame of the other run as it was and a switch hands each run
\* back exactly the frame it was suspended with; so the executing run's
\* attempt counter, draft, research results and event stream are always the
\* ones its own calls and their responses produce, as in a run alone.
C18_RunsShareNothing ==
    /\ [][ /\ active' = active => other' = other
           /\ active' # active => other' = Snapshot /\ Snapshot' = other
         ]_vars
    /\ [](/\ attempts = Cardinality(EventsOf("revising"))
          /\ attempts = Cardinality(CallsOf("revise"))
                        + (IF pc \in {"L67", "L68"} THEN 1 ELSE 0)
          /\ story.ver = DraftsReceived
          /\ Len(evaluations) = Cardinality(CallsOf("evaluate"))
                - (IF pc \in {"L61_await", "L71_await"} \/ exc = "evaluate"
                   THEN 1 ELSE 0)
          /\ research_results =
                (IF PastFanout THEN results ELSE <<>>)
          /\ Elements(results) \subseteq Succeeded
          /\ Cardinality(CallsOf("search")) = Len(tasks)
          /\ IsPrefix(events,
                      StageOrder \o RevisionEvents(attempts) \o TerminalEvents)
          /\ pc # "raised" => Len(events) = EventsAt(pc))

\* both runs are past their first revision, one suspended in its reviser
\* call while the other, which found nothing, has been rejected twice
C18_Witness ==
    /\ active = 2
    /\ other.pc = "L68_await"
    /\ other.attempts = 1
    /\ other.research_results = <<1>>
    /\ pc = "L67"
    /\ attempts = 2
    /\ research_results = <<>>
    /\ Len(events) > Len(other.events)

----------------------------------------------------------------------------
\* the calls of one stage, in the order they were made
StageCalls(stage) == SelectSeq(calls, LAMBDA c : c.stage = stage)

\* C22: the attempt counter changes only by the increment of line 65, by
\* exactly 1, taken when the latest evaluation rejects and the counter is
\* below MAX_REVISION_ATTEMPTS; every reviser call is made right after such
\* an increment, so the k-th reviser call is made with attempts = k.
C22_RevisionGuardAndCounter ==
    [][ /\ attempts' # attempts =>
              /\ attempts' = attempts + 1
              /\ pc = "L64"
              /\ evaluations # <<>>
              /\ evaluation = evaluations[Len(evaluations)]
              /\ ~evaluation.is_approved
              /\ attempts < MAX_REVISION_ATTEMPTS
        /\ Len(StageCalls("revise"))' # Len(StageCalls("revise")) =>
              /\ Len(StageCalls("revise"))' = Len(StageCalls("revise")) + 1
              /\ evaluation = evaluations[Len(evaluations)]
              /\ ~evaluation.is_approved
              /\ attempts' = attempts
              /\ attempts = Len(StageCalls("revise")) + 1
              /\ attempts <= MAX_REVISION_ATTEMPTS
      ]_vars

\* the third reviser call is in flight
C22_Witness ==
    /\ pc = "L68_await"
    /\ attempts = MAX_REVISION_ATTEMPTS
    /\ Len(StageCalls("revise")) = MAX_REVISION_ATTEMPTS

\* C23: the n-th reviser call receives the draft current at that time, which
\* is draft n, the very draft the n-th evaluation was made on and rejected,
\* with the issues of that evaluation and the research list of the run; the
\* draft it returns becomes the current one, and the next evaluation is
\* called with it, so no evaluation is made on a superseded draft.
C23_ReviserGetsRejectedDraft ==
    LET ev == StageCalls("evaluate")
        rv == StageCalls("revise")
    IN  /\ \A n \in DOMAIN rv :
              /\ n <= Len(evaluations)
              /\ ~evaluations[n].is_approved
              /\ rv[n].arg.issues_found = evaluations[n].issues_found
              /\ rv[n].arg.story = ev[n].arg.story
              /\ rv[n].arg.story.ver = n
              /\ rv[n].arg.research_results = research_results
        /\ \A n \in DOMAIN ev : ev[n].arg.story.ver = n
        /\ Len(ev) <= Len(rv) + 1
        /\ pc = "L71" => story.ver = Len(rv) + 1 /\ Len(ev) = Len(rv)
        /\ ev # <<>> /\ pc # "L71" /\ exc # "revise" /\ pc # "L68_await" =>
              ev[Len(ev)].arg.story = story
        /\ pc = "L68_await" => rv[Len(rv)].arg.story = story

\* the second revision has returned and its draft is being evaluated
C23_Witness ==
    /\ pc = "L71_await"
    /\ Len(StageCalls("revise")) = 2
    /\ story.ver = 3
    /\ StageCalls("evaluate")[3].arg.story = story
    /\ research_results = <<2, 1>>

\* C24: no draft is evaluated twice, and when the run has ended without a
\* capability failure every draft it produced has been evaluated, the one of
\* the last permitted revision included: the number of evaluation calls is
\* the number of revisions plus one.
C24_EveryDraftEvaluatedOnce ==
    LET ev == StageCalls("evaluate")
    IN  /\ \A i, j \in DOMAIN ev :
              ev[i].arg.story.ver = ev[j].arg.story.ver => i = j
        /\ pc \in {"L64", "L67", "L68", "L76", "L77", "L78", "L80", "L81",
                   "L84", "done"} =>
              /\ Len(ev) = Len(StageCalls("revise")) + 1
              /\ {ev[i].arg.story.ver : i \in DOMAIN ev} = 1..story.ver
        /\ pc = "done" =>
              /\ Len(ev) = attempts + 1
              /\ Len(ev) = Len(evaluations)
              /\ story.ver = attempts + 1

\* a run that ended after three revisions made four evaluation calls
C24_Witness ==
    /\ pc = "done"
    /\ attempts = MAX_REVISION_ATTEMPTS
    /\ Len(StageCalls("evaluate")) = MAX_REVISION_ATTEMPTS + 1
    /\ story.ver = MAX_REVISION_ATTEMPTS + 1

\* the successful subtasks in the order they completed: those already taken
\* by the as_completed loop, then those still waiting to be taken
CompletionOrder == results \o SelectSeq(done, LAMBDA i : tasks[i] = "ok")

\* C25: once the fan-out has started every planned subtask has been
\* launched, before any result is taken; whichever subtask is still running
\* may be the next to complete; a subtask that completes successfully goes
\* to the end of the completion order, and the list handed back to run() is
\* that order, not the plan order.
C25_ResultsInCompletionOrder ==
    /\ [](tasks # <<>> =>
            /\ Len(tasks) = search_plan
            /\ StageCalls("search") =
                  [i \in 1..search_plan |-> Call("search", i)])
    /\ [](pc = "L102" =>
            \A i \in Running :
                ENABLED (SearchReturns /\ tasks'[i] = "ok"))
    /\ [][pc = "L102" =>
            /\ \A i \in DOMAIN tasks :
                  tasks[i] = "running" /\ tasks'[i] = "ok" =>
                      CompletionOrder' = Append(CompletionOrder, i)
            /\ tasks' = tasks => CompletionOrder' = CompletionOrder
         ]_vars
    /\ [](PastFanout => research_results = CompletionOrder)

\* of three searches the third completed first and the second failed
C25_Witness ==
    /\ pc = "L52"
    /\ search_plan = 3
    /\ tasks = <<"ok", "failed", "ok">>
    /\ research_results = <<3, 1>>

\* C26: every planned subtask invokes the research agent exactly once: there
\* is one search call per plan position and no other, and a subtask that has
\* failed or succeeded keeps that outcome, it is never started again.
C26_EachSearchInvokedOnce ==
    /\ [](/\ \A i \in DOMAIN tasks :
               Cardinality({j \in CallsOf("search") :
                               calls[j].arg = i}) = 1
          /\ Len(StageCalls("search")) = Len(tasks)
          /\ Len(StageCalls("search")) \in {0, search_plan})
    /\ [][ /\ \A i \in DOMAIN tasks :
                 tasks[i] # "running" => tasks'[i] = tasks[i]
           /\ tasks # <<>> => StageCalls("search")' = StageCalls("search")
         ]_vars

\* a run ended although the first of its two searches had failed
C26_Witness ==
    /\ pc = "done"
    /\ tasks = <<"failed", "ok">>
    /\ Len(StageCalls("search")) = 2
    /\ research_results = <<2>>

\* C27: when the evaluation made after the third revision approves, the run
\* announces the approval and ends with the story, with attempts = 3; the
\* failure notice appears only when that fourth evaluation rejects.
C27_ApprovalAfterLastRevision ==
    LET last == MAX_REVISION_ATTEMPTS + 1
    IN  /\ Len(evaluations) = last /\ evaluations[last].is_approved =>
              /\ attempts = MAX_REVISION_ATTEMPTS
              /\ exc = "none"
              /\ ~Emitted("failed")
              /\ pc = "L64" => ENABLED YieldApproved /\ ~ENABLED YieldFailed
              /\ pc # "L64" => Emitted("approved")
              /\ pc = "done" => events[Len(events)] = Event("story", story)
        /\ Emitted("failed") /\ attempts = MAX_REVISION_ATTEMPTS =>
              /\ Len(evaluations) = last
              /\ ~evaluations[last].is_approved

\* the story of the third revision was approved and delivered
C27_Witness ==
    /\ pc = "done"
    /\ attempts = MAX_REVISION_ATTEMPTS
    /\ Len(evaluations) = MAX_REVISION_ATTEMPTS + 1
    /\ evaluation.is_approved
    /\ story.ver = MAX_REVISION_ATTEMPTS + 1
    /\ Emitted("story")

----------------------------------------------------------------------------
\* C21: get_budget_status reports 'On track' when the total cost is under
\* 80% of the budget, the warning when it is from 80% up to and including
\* 100% of the budget, and 'Over budget' only when the total cost exceeds
\* the budget.
C21_BudgetStatusBands ==
    reply.call.op = "get_budget_status" =>
        LET total == reply.result.total_cost
            limit == reply.result.budget
        IN  /\ total = GetTotalCost /\ limit = budget
            /\ total * 100 < 80 * limit => reply.result.status = "on_track"
            /\ 80 * limit <= total * 100 /\ total <= limit =>
                  reply.result.status = "approaching"
            /\ reply.result.status = "over_budget" => total > limit

\* C30: remove_item for a name whose normalised key is not in the list
\* reports success = false and changes neither the items nor the budget; for
\* a name whose normalised key is present it reports success and removes
\* exactly that entry, every other entry and the budget staying as they were.
C30_RemoveItemFrame ==
    [][ reply'.call.op = "remove_item" =>
          LET k == Normalised(reply'.call.name)
          IN  /\ budget' = budget
              /\ IF k \in DOMAIN items
                 THEN /\ reply'.result.success
                      /\ DOMAIN items' = DOMAIN items \ {k}
                      /\ \A j \in DOMAIN items' : items'[j] = items[j]
                 ELSE /\ ~reply'.result.success
                      /\ items' = items
      ]_shopVars

\* "M" was removed under the name " m " while "B" stayed
C30_Witness ==
    /\ reply.call.op = "remove_item"
    /\ reply.call.name = <<" ", "m", " ">>
    /\ reply.result.success
    /\ DOMAIN items = {<<"b">>}
    /\ items[<<"b">>].name = <<"B">>
    /\ budget = 10

----------------------------------------------------------------------------
\* app.py, generate_story: the Gradio handler.  It validates the form, then
\* iterates StoryManager().run(user_input); the generator runs only while
\* the handler waits for its next chunk.

\* form inputs: the child's name and the selected interests
ChildNameInputs == {"", "Mia"}
InterestInputs == { <<>>, <<"space">> }

\* how the string yielded for an event kind begins (story_manager.py, the
\* yields of lines 42-84)
Prefix(kind) ==
    CASE kind = "story" -> "# "
      [] kind = "separator" -> "---"
      [] kind = "issues" -> "   "
      [] kind = "advice" -> "Please"
      [] OTHER -> "emoji"

\* line 66: chunk.startswith("# ") or chunk.startswith("---")
IsFinalChunk(chunk) == Prefix(chunk.kind) \in {"# ", "---"}

\* the strings of generate_story itself, as events: the two validation
\* messages (lines 45 and 49) and the empty string
NameRequired == Event("name_required", 0)
InterestRequired == Event("interest_required", 0)
Empty == Event("empty", 0)

\* one yield of generate_story: the status box and the story box
Output(status, text) == [status |-> status, story |-> text]

\* lines 44-46; a call with both fields missing stops here as well
RejectNoName ==
    /\ app_pc = "idle"
    /\ \E child_name \in ChildNameInputs, interests \in InterestInputs :
        /\ child_name = ""
        /\ request' = [child_name |-> child_name, interests |-> interests,
                       submitted |-> TRUE]
    /\ ui' = Append(ui, Output(NameRequired, Empty))
    /\ app_pc' = "returned"
    /\ UNCHANGED <<notifications, runVars, peerVars, shopVars>>

\* RejectNoInterest without the return of line 50
RejectNoInterestFallsThrough ==
    /\ app_pc = "idle"
    /\ \E child_name \in ChildNameInputs, interests \in InterestInputs :
        /\ child_name # ""
        /\ interests = <<>>
        /\ request' = [child_name |-> child_name, interests |-> interests,
                       submitted |-> TRUE]
    /\ ui' = Append(ui, Output(InterestRequired, Empty))
    /\ app_pc' = "L64"
    /\ UNCHANGED <<notifications, runVars, peerVars, shopVars>>

\* lines 48-50
RejectNoInterest ==
    /\ app_pc = "idle"
    /\ \E child_name \in ChildNameInputs, interests \in InterestInputs :
        /\ child_name # ""
        /\ interests = <<>>
        /\ request' = [child_name |-> child_name, interests |-> interests,
                       submitted |-> TRUE]
    /\ ui' = Append(ui, Output(InterestRequired, Empty))
    /\ app_pc' = "returned"
    /\ UNCHANGED <<notifications, runVars, peerVars, shopVars>>

\* lines 52-64: the request is valid; the generator is created
StartRun ==
    /\ app_pc = "idle"
    /\ \E child_name \in ChildNameInputs, interests \in InterestInputs :
        /\ child_name # ""
        /\ interests # <<>>
        /\ request' = [child_name |-> child_name, interests |-> interests,
                       submitted |-> TRUE]
    /\ app_pc' = "L64"
    /\ UNCHANGED <<ui, notifications, runVars, peerVars, shopVars>>

\* the outputs that pass a chunk of the run on
Shown ==
    SelectSeq(ui, LAMBDA o : o.status \notin
                                {NameRequired,
                                 InterestRequired})

\* the chunks of the run that the handler has not passed on yet
Pending == Len(events) - Len(Shown)

\* line 64: the handler waits for the next chunk and the generator runs
Pull ==
    /\ app_pc = "L64"
    /\ Pending = 0
    /\ Next

\* lines 65-74: the chunk the generator yielded is passed on
ShowChunk ==
    /\ app_pc = "L64"
    /\ Pending > 0
    /\ LET chunk == events[Len(events)]
       IN  IF IsFinalChunk(chunk)
           THEN /\ notifications' = notifications + 1
                /\ ui' = Append(ui, Output(Empty, chunk))
           ELSE /\ notifications' = notifications
                /\ ui' = Append(ui, Output(chunk, Empty))
    /\ UNCHANGED <<app_pc, request, runVars, peerVars, shopVars>>

\* the generator is exhausted: the async for ends and the handler returns
FinishRun ==
    /\ app_pc = "L64"
    /\ Pending = 0
    /\ pc = "done"
    /\ app_pc' = "returned"
    /\ UNCHANGED <<request, ui, notifications, runVars, peerVars, shopVars>>

\* an exception of the generator leaves the async for and the handler
FailRun ==
    /\ app_pc = "L64"
    /\ Pending = 0
    /\ pc = "raised"
    /\ app_pc' = "raised"
    /\ UNCHANGED <<request, ui, notifications, runVars, peerVars, shopVars>>

NextApp ==
    \/ RejectNoName \/ RejectNoInterest \/ StartRun
    \/ Pull \/ ShowChunk \/ FinishRun \/ FailRun

SpecApp == Init /\ [][NextApp]_vars

\* the handler has returned after refusing the form
Refused ==
    /\ request.submitted
    /\ request.child_name = "" \/ request.interests = <<>>

\* C28: when generate_story has returned after a run that delivered an
\* approved story, send_pushover_notification has been called exactly once;
\* when it has ended after a run that delivered no story, or has refused the
\* form, it has not been called at all.
C28_OneNotificationPerStory ==
    app_pc \in {"returned", "raised"} =>
        /\ Emitted("story") => notifications = 1
        /\ ~Emitted("story") => notifications = 0

\* C29: when the child's name is empty or no interest is selected,
\* generate_story yields exactly one validation message and returns: the
\* generator is never started, no capability is called and no notification
\* is sent.
C29_InvalidFormStartsNothing ==
    Refused =>
        /\ app_pc = "returned"
        /\ Len(ui) = 1
        /\ ui[1] = Output(IF request.child_name = ""
                          THEN NameRequired
                          ELSE InterestRequired, Empty)
        /\ pc = "L42"
        /\ events = <<>>
        /\ calls = <<>>
        /\ notifications = 0
        /\ ~ENABLED NextApp

\* a named child without interests was refused
C29_Witness ==
    /\ Refused
    /\ request.child_name = "Mia"
    /\ request.interests = <<>>
    /\ app_pc = "returned"
    /\ ui = << Output(InterestRequired, Empty) >>

====
